---- MODULE Spec2Model ----
(***************************************************************************)
(* Continuous face-detection polling loop (src/src/hooks/useFaceDetection) *)
(* and the access-event reconciliation effect of the access-control        *)
(* webcam component (WebcamFaceRecognition.tsx).                           *)
(*                                                                         *)
(* The JavaScript event loop is modelled as interleaving of atomic steps:  *)
(* every action is one synchronous run of a handler up to its next await.  *)
(***************************************************************************)
EXTENDS Integers, Sequences, FiniteSets, TLC

\* ---------------------------------------------------------------- bounds
\* number of startContinuousDetection calls explored
MaxStarts == 2
\* number of recognition calls issued in one behaviour
MaxCalls == 3
\* number of clock advances in one behaviour
MaxAdvances == 2

\* ------------------------------------------------------------- constants
\* cooldown window of the reconciler, in ms
COOLDOWN_MS == 30000

NULL == "null"

\* deviceIds of the cameras enumerateDevices() lists
Devices == {"cam1", "cam2"}

\* ids of the people in the DataContext list
Persons == {"p1", "p2"}

\* the people whose record is edited while the loop runs
Editable == {"p2"}

\* amounts by which Date.now() grows between two handlers
ClockSteps == {10000, 20000, 21000}

\* A DetectedFace, reduced to the fields the loop and the reconciler read.
Face(pid, reg) == [matchedPersonId |-> pid, isRegistered |-> reg]

\* The detection lists the opaque recognition service may answer with.
FaceSets ==
  { <<>>,
    << Face("p1", TRUE) >>,
    << Face("p1", FALSE) >>,
    << Face("p1", TRUE), Face("p2", TRUE) >>,
    << Face("p2", FALSE), Face("p1", TRUE) >> }

\* Detection lists the service is not kept from answering with: the same
\* person in two registered faces, and registered faces whose matchedPersonId
\* is null or the id of nobody in the people list.
OddFaceSets ==
  { << Face("p1", TRUE), Face("p1", TRUE) >>,
    << Face(NULL, TRUE), Face("p9", TRUE) >>,
    << Face(NULL, TRUE), Face("p9", TRUE), Face("p1", TRUE) >> }

\* ------------------------------------------------------------- permissions
\* UserRole
Roles == {"admin", "security", "super_admin"}

PublicPaths == {"/login", "/ms-admin", "/reset-password"}

ProtectedPaths ==
  {"/dashboard", "/users", "/access-control", "/access-logs", "/enrollment",
   "/analytics", "/settings"}

\* The locations a browser may be sent to; "/nowhere" stands for every path
\* no route matches.
Paths == {"/"} \cup PublicPaths \cup ProtectedPaths \cup {"/nowhere"}

rolePermissions ==
  [r \in Roles |->
     IF r = "super_admin"
     THEN {"/dashboard", "/access-logs", "/access-control", "/users",
           "/enrollment", "/analytics", "/settings"}
     ELSE {"/dashboard", "/access-logs", "/access-control"}]

\* if (!role) return false; return rolePermissions[role]?.includes(path) ?? false
canAccessRoute(r, path) ==
  IF r = NULL
  THEN FALSE
  ELSE IF r \in DOMAIN rolePermissions
       THEN path \in rolePermissions[r]
       ELSE FALSE

\* return "/dashboard"
getDefaultRouteForRole(r) == "/dashboard"

VARIABLES
  isDetecting,      \* useState isDetecting
  detectedFaces,    \* useState detectedFaces: the published detection set
  error,            \* useState error
  intervalRef,      \* useRef intervalRef: {} is null, {t} is the handle t
  isProcessingRef,  \* useRef isProcessingRef: the in-flight guard
  timers,           \* the browser's live interval timers with their closures
  calls,            \* recognition calls (detectOnce) awaiting the service
  issued,           \* number of recognition calls issued so far
  started,          \* number of startContinuousDetection calls so far
  stopped,          \* whether stopDetection was ever called
  lastResult,       \* history: how the last settled recognition call ended
  publishedSeq,     \* history: the call whose result detectedFaces holds, or 0
  people,           \* DataContext people: id -> [hasFacialData, active]
  isActive,         \* useState isActive of the webcam component
  loggedPersonsRef, \* useRef loggedPersonsRef: personId -> last logged time
  runs,             \* processDetectedFaces runs suspended at await logAccess
  requests,         \* access-log requests emitted so far, in order
  seen,             \* history: the loggable detections the reconciler examined
  now,              \* Date.now()
  advances,         \* number of clock advances so far
  selectedDeviceId, \* useState selectedDeviceId: the camera the Webcam shows
  overlay,          \* the bounding-box elements rendered over the video
  served,           \* the edge function's last exchange: request and response
  isAuthenticated,  \* useAuth().isAuthenticated
  role,             \* useAuth().user?.role ?? null
  pathname,         \* useLocation().pathname
  rendered          \* what the router last put on screen for pathname

hookVars == <<isDetecting, detectedFaces, error, intervalRef, isProcessingRef,
              timers, calls, issued, started, stopped, lastResult,
              publishedSeq>>
compVars == <<isActive, loggedPersonsRef, runs, requests, seen>>
edgeVars == <<served>>
routeVars == <<isAuthenticated, role, pathname, rendered>>
viewVars == <<selectedDeviceId, overlay, edgeVars, routeVars>>
vars == <<hookVars, compVars, people, now, advances, viewVars>>

\* ------------------------------------------------------ recognition client
\* registeredFaces sent with a call: the ids of the people that have facial
\* data and are active.
RegisteredFaces(registeredPeople) ==
  {p \in Persons : registeredPeople[p].hasFacialData /\ registeredPeople[p].active}

\* ---------------------------------------- recognition service (edge function)
\* What the AI gateway can answer to the edge function's fetch: a status, and
\* for a 2xx the message content: "json" (an object with the faces), "text"
\* (no parseable JSON in it) or "none" (no choices[0].message.content).
Upstreams ==
  {[status |-> 200, content |-> "json", faces |-> fs] : fs \in FaceSets}
    \cup {[status |-> 200, content |-> c, faces |-> << >>] : c \in {"text", "none"}}
    \cup {[status |-> st, content |-> "none", faces |-> << >>] :
            st \in {402, 429, 503}}

\* The bodies of the requests a client can post in detect mode.
Requests ==
  [capturedImage : {NULL} \cup Devices, registeredFaces : SUBSET Persons,
   mode : {"detect"}]

Response(st, err, faces, msg) ==
  [status |-> st,
   body |-> [error |-> err, faces |-> faces, totalFaces |-> Len(faces),
             message |-> msg]]

\* (variant of Serve: every failure, 429 and 402 included, is answered 500)
ServeFlat(request, apiKey, upstream) ==
  IF request.capturedImage = NULL \/ ~apiKey \/ upstream.status # 200
       \/ upstream.content # "json"
  THEN Response(500, "error", << >>, "Error processing request")
  ELSE Response(200, NULL, upstream.faces, "")

\* serve(req) for a POST: the response of the edge function to request when
\* LOVABLE_API_KEY is set (apiKey) and the gateway answers upstream.
Serve(request, apiKey, upstream) ==
  IF request.capturedImage = NULL
  THEN Response(500, "No captured image provided", << >>,
                "Error processing request")
  ELSE IF ~apiKey
  THEN Response(500, "LOVABLE_API_KEY is not configured", << >>,
                "Error processing request")
  ELSE IF upstream.status = 429
  THEN Response(429, "Rate limit exceeded", << >>, NULL)
  ELSE IF upstream.status = 402
  THEN Response(402, "Payment required", << >>, NULL)
  ELSE IF upstream.status < 200 \/ upstream.status > 299
  THEN Response(500, "AI Gateway error", << >>, "Error processing request")
  ELSE IF upstream.content = "none"
  THEN Response(500, "No response from AI", << >>,
                "Error processing request")
  ELSE IF upstream.content = "json"
  THEN Response(200, NULL, upstream.faces, "")
  ELSE Response(200, NULL, << >>, "Unable to process image")

\* ------------------------------------------------- detection loop controller
\* What captureImage() can return: null (webcam not mounted, or no stream
\* yet), or a data URL: a screenshot of the selected camera, named here by
\* the camera it was taken from.
Frames == {NULL, selectedDeviceId}

\* (variant of RunDetection: the in-flight guard is not consulted)
RunDetectionUnguarded(registeredPeople, frame) ==
  IF frame = NULL
  THEN UNCHANGED <<isProcessingRef, calls, issued>>
  ELSE /\ issued < MaxCalls
       /\ isProcessingRef' = TRUE
       /\ issued' = issued + 1
       /\ calls' = calls \cup
            {[seq |-> issued + 1, capturedImage |-> frame,
              registeredFaces |-> RegisteredFaces(registeredPeople)]}

\* (variant of RunDetection: a null frame leaves the guard set)
RunDetectionNullSticks(registeredPeople, frame) ==
  IF isProcessingRef
  THEN UNCHANGED <<isProcessingRef, calls, issued>>
  ELSE IF frame = NULL
       THEN isProcessingRef' = TRUE /\ UNCHANGED <<calls, issued>>
       ELSE /\ issued < MaxCalls
            /\ isProcessingRef' = TRUE
            /\ issued' = issued + 1
            /\ calls' = calls \cup
                 {[seq |-> issued + 1, capturedImage |-> frame,
                   registeredFaces |-> RegisteredFaces(registeredPeople)]}

\* runDetection up to its await: registeredPeople is the list captured by the
\* closure, frame is what captureImage() returned.
RunDetection(registeredPeople, frame) ==
  IF isProcessingRef \/ frame = NULL
  THEN UNCHANGED <<isProcessingRef, calls, issued>>
  ELSE /\ issued < MaxCalls
       /\ isProcessingRef' = TRUE
       /\ issued' = issued + 1
       /\ calls' = calls \cup
            {[seq |-> issued + 1, capturedImage |-> frame,
              registeredFaces |-> RegisteredFaces(registeredPeople)]}

\* startContinuousDetection(captureImage, registeredPeople, intervalMs)
StartContinuousDetection(registeredPeople, frame) ==
  /\ started < MaxStarts
  /\ isDetecting' = TRUE
  /\ error' = NULL
  /\ RunDetection(registeredPeople, frame)
  /\ started' = started + 1
  /\ timers' = timers \cup
       {[id |-> started + 1, registeredPeople |-> registeredPeople]}
  /\ intervalRef' = {started + 1}
  /\ UNCHANGED <<detectedFaces, stopped, lastResult, publishedSeq>>

\* stopDetection()
StopDetection ==
  /\ timers' = {t \in timers : t.id \notin intervalRef}
  /\ intervalRef' = {}
  /\ isDetecting' = FALSE
  /\ detectedFaces' = <<>>
  /\ isProcessingRef' = FALSE
  /\ stopped' = TRUE
  /\ publishedSeq' = 0
  /\ UNCHANGED <<error, calls, issued, started, lastResult>>

\* ------------------------------------------------- access event reconciler
\* (variant of MapSet: one timestamp is kept for everybody)
MapSetAll(map, pid, t) == [q \in Persons |-> t]

\* (variant of MapSet: the entry is not recorded)
MapSetDropped(map, pid, t) == map

\* loggedPersonsRef.current.set(pid, t)
MapSet(map, pid, t) ==
  [q \in (DOMAIN map) \cup {pid} |-> IF q = pid THEN t ELSE map[q]]

\* (variant of CooldownOver: the window ends at exactly COOLDOWN_MS)
CooldownOverInclusive(map, pid, t) ==
  \/ pid \notin DOMAIN map
  \/ map[pid] = 0
  \/ t - map[pid] >= COOLDOWN_MS

\* (variant of CooldownOver: the window is compared in seconds)
CooldownOverInSeconds(map, pid, t) ==
  \/ pid \notin DOMAIN map
  \/ map[pid] = 0
  \/ t - map[pid] > COOLDOWN_MS \div 1000

\* !lastLogged || now - lastLogged > 30000
CooldownOver(map, pid, t) ==
  \/ pid \notin DOMAIN map
  \/ map[pid] = 0
  \/ t - map[pid] > COOLDOWN_MS

\* (variant of Loggable: the person is not looked up in the people list)
LoggableUnknownPerson(face) ==
  /\ face.isRegistered
  /\ face.matchedPersonId # NULL

\* (variant of Loggable: any matched face counts, registered or not)
LoggableAnyMatch(face) ==
  /\ face.matchedPersonId # NULL
  /\ face.matchedPersonId \in Persons

\* face.isRegistered && face.matchedPersonId, and people.find(...) found one
Loggable(face) ==
  /\ face.isRegistered
  /\ face.matchedPersonId # NULL
  /\ face.matchedPersonId \in Persons

\* (variant of Scan: a suppressed detection refreshes the person's entry)
RECURSIVE ScanRefreshing(_, _, _, _)
ScanRefreshing(faces, i, map, t) ==
  IF i > Len(faces)
  THEN [idx |-> i, emit |-> NULL, map |-> map]
  ELSE IF Loggable(faces[i])
       THEN IF CooldownOver(map, faces[i].matchedPersonId, t)
            THEN [idx |-> i, emit |-> faces[i].matchedPersonId,
                  map |-> MapSet(map, faces[i].matchedPersonId, t)]
            ELSE ScanRefreshing(faces, i + 1,
                                MapSet(map, faces[i].matchedPersonId, t), t)
       ELSE ScanRefreshing(faces, i + 1, map, t)

\* The for-loop of processDetectedFaces from face i on, at clock reading t,
\* up to its first await logAccess(...): idx is the face it suspends at
\* (emit its person), or Len(faces) + 1 when the loop ends.
RECURSIVE Scan(_, _, _, _)
Scan(faces, i, map, t) ==
  IF i > Len(faces)
  THEN [idx |-> i, emit |-> NULL, map |-> map]
  ELSE IF Loggable(faces[i]) /\ CooldownOver(map, faces[i].matchedPersonId, t)
       THEN [idx |-> i, emit |-> faces[i].matchedPersonId,
             map |-> MapSet(map, faces[i].matchedPersonId, t)]
       ELSE Scan(faces, i + 1, map, t)

\* The loggable detections among faces[i..j], as history records.
Examined(faces, i, j, t) ==
  {[personId |-> faces[k].matchedPersonId, at |-> t] :
     k \in {n \in i..j : n <= Len(faces) /\ Loggable(faces[n])}}

\* processDetectedFaces run from face i on, at clock reading t, up to its
\* next await; rec is the reconciler's state [map, runs, reqs, seen].
\* A request is logAccess(person.id, name, type, "facial", true); its fields
\* isRegistered (of the face it was emitted for) is history.
ProcessDetectedFaces(faces, i, rec, t) ==
  LET r == Scan(faces, i, rec.map, t)
      seenNow == rec.seen \cup Examined(faces, i, r.idx, t)
  IN IF r.emit = NULL
     THEN [rec EXCEPT !.seen = seenNow]
     ELSE [rec EXCEPT
             !.map = r.map,
             !.runs = @ \cup {[faces |-> faces, idx |-> r.idx, at |-> t]},
             !.reqs = Append(@, [personId |-> r.emit, at |-> t, granted |-> TRUE,
                                 isRegistered |-> faces[r.idx].isRegistered]),
             !.seen = seenNow]

\* The logging effect: it runs after every render in which detectedFaces,
\* people or logAccess changed.
LogEffect(faces, rec, t) ==
  IF \E i \in 1..Len(faces) : faces[i].isRegistered
  THEN ProcessDetectedFaces(faces, 1, rec, t)
  ELSE rec

Rec ==
  [map |-> loggedPersonsRef, runs |-> runs, reqs |-> requests, seen |-> seen]

SetRec(rec) ==
  /\ loggedPersonsRef' = rec.map
  /\ runs' = rec.runs
  /\ requests' = rec.reqs
  /\ seen' = rec.seen

\* ------------------------------------------------------------ overlay mapper
\* The percentages a boundingBox field may hold, the out-of-range ones the
\* recognition service is not kept from returning included.
XCoords == {-10, 0, 25, 30, 100, 120}
YCoords == {-10, 15, 40, 120}

Boxes == [x : XCoords, y : YCoords, width : XCoords, height : YCoords]

\* The template literal `${n}%` of a style field.
Percent(n) == [value |-> n, unit |-> "%"]

\* (variant of AdjustedX: the x coordinate is not flipped)
AdjustedXUnmirrored(box) == box.x

\* adjustedX: the x coordinate flipped for the mirrored video
AdjustedX(box) == 100 - box.x - box.width

\* The style of the overlay element drawn for a face's boundingBox.
OverlayStyle(box) ==
  [left |-> Percent(AdjustedX(box)),
   top |-> Percent(box.y),
   width |-> Percent(box.width),
   height |-> Percent(box.height)]

\* ------------------------------------------------------------------ actions
\* The component renders the overlay element of a detected face.
RenderOverlay ==
  \E box \in Boxes :
    /\ overlay' = {[box |-> box, style |-> OverlayStyle(box)]}
    /\ UNCHANGED <<hookVars, compVars, people, now, advances,
                   selectedDeviceId, edgeVars, routeVars>>

\* A client calls the hook's startContinuousDetection with the current list.
Start ==
  \E frame \in Frames :
    /\ StartContinuousDetection(people, frame)
    /\ UNCHANGED <<compVars, people, now, advances, viewVars>>

\* A client calls the hook's stopDetection (the unmount cleanup does).
Stop ==
  /\ StopDetection
  /\ UNCHANGED <<compVars, people, now, advances, viewVars>>

\* (variant of HandleToggleDetection: stopping clears the cooldown map)
HandleToggleDetectionWiping ==
  \E frame \in Frames :
    /\ IF isActive
       THEN StopDetection /\ loggedPersonsRef' = << >>
       ELSE StartContinuousDetection(people, frame)
            /\ loggedPersonsRef' = loggedPersonsRef
    /\ isActive' = ~isActive
    /\ UNCHANGED <<runs, requests, seen, people, now, advances, viewVars>>

\* handleToggleDetection of the webcam component
HandleToggleDetection ==
  \E frame \in Frames :
    /\ IF isActive
       THEN StopDetection
       ELSE StartContinuousDetection(people, frame)
    /\ isActive' = ~isActive
    /\ UNCHANGED <<loggedPersonsRef, runs, requests, seen, people, now,
                   advances, viewVars>>

\* An interval timer fires runDetection.
Tick ==
  \E t \in timers, frame \in Frames :
    /\ RunDetection(t.registeredPeople, frame)
    /\ UNCHANGED <<isDetecting, detectedFaces, error, intervalRef, timers,
                   started, stopped, lastResult, publishedSeq, compVars,
                   people, now, advances, viewVars>>

\* An interval timer fires runDetection while no call is in flight, and
\* captureImage() returns null.
TickNullFrame ==
  \E t \in timers :
    /\ ~isProcessingRef
    /\ RunDetection(t.registeredPeople, NULL)
    /\ UNCHANGED <<isDetecting, detectedFaces, error, intervalRef, timers,
                   started, stopped, lastResult, publishedSeq, compVars,
                   people, now, advances, viewVars>>

\* (variant of Publish: a successful cycle clears the error)
PublishClearingError(c, faces) ==
  /\ calls' = calls \ {c}
  /\ detectedFaces' = faces
  /\ error' = NULL
  /\ isProcessingRef' = FALSE
  /\ lastResult' = "resolved"
  /\ publishedSeq' = c.seq
  /\ UNCHANGED <<isDetecting, intervalRef, timers, issued, started, stopped>>

\* detectOnce returns a result to runDetection, which publishes it and
\* releases the guard.
Publish(c, faces) ==
  /\ calls' = calls \ {c}
  /\ detectedFaces' = faces
  /\ isProcessingRef' = FALSE
  /\ lastResult' = "resolved"
  /\ publishedSeq' = c.seq
  /\ UNCHANGED <<isDetecting, error, intervalRef, timers, issued, started,
                 stopped>>

\* detectOnce catches a failure: it sets the error and returns null, and
\* runDetection releases the guard.
Reject(c, msg) ==
  /\ calls' = calls \ {c}
  /\ error' = msg
  /\ isProcessingRef' = FALSE
  /\ lastResult' = "failed"
  /\ UNCHANGED <<isDetecting, detectedFaces, intervalRef, timers, issued,
                 started, stopped, publishedSeq>>

\* The edge function answers a call of the hook: functions.invoke hands a
\* 2xx body to detectOnce as data, and any other status as fnError.
ServiceReplies ==
  \E c \in calls, apiKey \in BOOLEAN, upstream \in Upstreams :
    LET request == [capturedImage |-> c.capturedImage,
                    registeredFaces |-> c.registeredFaces, mode |-> "detect"]
        response == Serve(request, apiKey, upstream)
    IN /\ served' = {[request |-> request, apiKey |-> apiKey,
                      upstream |-> upstream, response |-> response]}
       /\ IF response.status >= 200 /\ response.status <= 299
          THEN Publish(c, response.body.faces)
          ELSE Reject(c, "Edge Function returned a non-2xx status code")
       /\ UNCHANGED <<compVars, people, now, advances, selectedDeviceId,
                      overlay, routeVars>>

\* The edge function answers a POST of any client.
Serves ==
  \E request \in Requests, apiKey \in BOOLEAN, upstream \in Upstreams :
    /\ served' = {[request |-> request, apiKey |-> apiKey,
                   upstream |-> upstream,
                   response |-> Serve(request, apiKey, upstream)]}
    /\ UNCHANGED <<hookVars, compVars, people, now, advances,
                   selectedDeviceId, overlay, routeVars>>

\* ------------------------------------------------------------------ router
\* login: the user is built with the role fetchUserRole returns, null when
\* the user has no user_roles row or the query fails.
Login ==
  \E r \in Roles \cup {NULL} :
    /\ ~isAuthenticated
    /\ isAuthenticated' = TRUE
    /\ role' = r
    /\ rendered' = "nothing"
    /\ UNCHANGED <<hookVars, compVars, people, now, advances,
                   selectedDeviceId, overlay, edgeVars, pathname>>

Logout ==
  /\ isAuthenticated
  /\ isAuthenticated' = FALSE
  /\ role' = NULL
  /\ rendered' = "nothing"
  /\ UNCHANGED <<hookVars, compVars, people, now, advances,
                 selectedDeviceId, overlay, edgeVars, pathname>>

\* The browser is sent to a location (a link, the address bar).
Visit ==
  \E path \in Paths :
    /\ pathname' = path
    /\ rendered' = "nothing"
    /\ UNCHANGED <<hookVars, compVars, people, now, advances,
                   selectedDeviceId, overlay, edgeVars, isAuthenticated, role>>

\* ProtectedRoute rendered at the current location.
ProtectedRoute ==
  IF ~isAuthenticated
  THEN pathname' = "/login" /\ rendered' = "login-redirect"
  ELSE IF ~canAccessRoute(role, pathname)
       THEN /\ pathname' = getDefaultRouteForRole(role)
            /\ rendered' = "default-redirect"
       ELSE pathname' = pathname /\ rendered' = "page"

\* <Routes> renders the element of the route that matches the location; a
\* <Navigate> changes the location, and the routes render again.
RoutesRender ==
  /\ rendered \notin {"page", "not-found"}
  /\ IF pathname \in PublicPaths
     THEN pathname' = pathname /\ rendered' = "page"
     ELSE IF pathname = "/"
          THEN pathname' = "/dashboard" /\ rendered' = "index-redirect"
          ELSE IF pathname \in ProtectedPaths
               THEN ProtectedRoute
               ELSE pathname' = pathname /\ rendered' = "not-found"
  /\ UNCHANGED <<hookVars, compVars, people, now, advances,
                 selectedDeviceId, overlay, edgeVars, isAuthenticated, role>>

\* A recognition call resolves in the hook (no component is looked at).
DetectResolved ==
  \E c \in calls, faces \in FaceSets :
    /\ Publish(c, faces)
    /\ UNCHANGED <<compVars, people, now, advances, viewVars>>

\* A recognition call resolves under the webcam component: the render that
\* follows the publication runs the logging effect.
FacesPublished ==
  \E c \in calls, faces \in FaceSets :
    /\ Publish(c, faces)
    /\ SetRec(LogEffect(faces, Rec, now))
    /\ UNCHANGED <<isActive, people, now, advances, viewVars>>

\* A recognition call resolves under the webcam component with one of the
\* odd detection lists.
OddFacesPublished ==
  \E c \in calls, faces \in OddFaceSets :
    /\ Publish(c, faces)
    /\ SetRec(LogEffect(faces, Rec, now))
    /\ UNCHANGED <<isActive, people, now, advances, viewVars>>

\* What detectOnce's catch can see: the invoke error of a non-2xx reply
\* (429, 402, 500), or an exception thrown inside the try block.
Failures == {"Edge Function returned a non-2xx status code", "Detection error"}

\* (variant of DetectFailed: the guard is not released after a failure)
DetectFailedStuck ==
  \E c \in calls, msg \in Failures :
    /\ calls' = calls \ {c}
    /\ error' = msg
    /\ lastResult' = "failed"
    /\ UNCHANGED <<isDetecting, detectedFaces, intervalRef, isProcessingRef,
                   timers, issued, started, stopped, publishedSeq, compVars,
                   people, now, advances, viewVars>>

\* (variant of DetectFailed: a failed cycle clears the published set)
DetectFailedClearing ==
  \E c \in calls, msg \in Failures :
    /\ calls' = calls \ {c}
    /\ error' = msg
    /\ detectedFaces' = <<>>
    /\ isProcessingRef' = FALSE
    /\ lastResult' = "failed"
    /\ UNCHANGED <<isDetecting, intervalRef, timers, issued, started, stopped,
                   publishedSeq, compVars, people, now, advances, viewVars>>

\* detectOnce fails: it sets the error and returns null; runDetection
\* releases the guard.
DetectFailed ==
  \E c \in calls, msg \in Failures :
    /\ calls' = calls \ {c}
    /\ error' = msg
    /\ isProcessingRef' = FALSE
    /\ lastResult' = "failed"
    /\ UNCHANGED <<isDetecting, detectedFaces, intervalRef, timers, issued,
                   started, stopped, publishedSeq, compVars, people, now,
                   advances, viewVars>>

\* setPeople after enrollFacial / resetBiometrics / updatePerson({active})
SetPeople(p, flags) ==
  /\ people[p] # flags
  /\ people' = [people EXCEPT ![p] = flags]
  /\ UNCHANGED <<hookVars, compVars, now, advances, viewVars>>

EnrollFacial ==
  \E p \in Editable : SetPeople(p, [people[p] EXCEPT !.hasFacialData = TRUE])

ResetBiometrics ==
  \E p \in Editable : SetPeople(p, [people[p] EXCEPT !.hasFacialData = FALSE])

UpdatePerson ==
  \E p \in Editable, a \in BOOLEAN : SetPeople(p, [people[p] EXCEPT !.active = a])

\* (variant of LogAccessReturns: a failed write takes the cooldown entry back)
LogAccessReturnsForgetting(run, ok) ==
  LET pid == run.faces[run.idx].matchedPersonId
      kept == [q \in (DOMAIN loggedPersonsRef) \ {pid} |-> loggedPersonsRef[q]]
      rest == [Rec EXCEPT !.runs = @ \ {run},
                          !.map = IF ok THEN @ ELSE kept]
      cont == ProcessDetectedFaces(run.faces, run.idx + 1, rest, now)
  IN /\ SetRec(IF ok THEN LogEffect(detectedFaces, cont, now) ELSE cont)
     /\ UNCHANGED <<hookVars, isActive, people, now, advances, viewVars>>

\* logAccess returns to a suspended processDetectedFaces run, which goes on
\* with the next faces; when the insert succeeded (ok), setAccessLogs
\* re-renders the provider and the logging effect runs again.
LogAccessReturns(run, ok) ==
  LET rest == [Rec EXCEPT !.runs = @ \ {run}]
      cont == ProcessDetectedFaces(run.faces, run.idx + 1, rest, now)
  IN /\ SetRec(IF ok THEN LogEffect(detectedFaces, cont, now) ELSE cont)
     /\ UNCHANGED <<hookVars, isActive, people, now, advances, viewVars>>

LogAccessDone ==
  \E run \in runs, ok \in BOOLEAN : LogAccessReturns(run, ok)

\* The insert of an access log fails: logAccess logs the error and returns.
LogAccessFailed ==
  \E run \in runs : LogAccessReturns(run, FALSE)

\* (variant of SetSelectedDeviceId: a device change restarts the session)
SetSelectedDeviceIdStopping ==
  \E d \in Devices \ {selectedDeviceId} :
    /\ selectedDeviceId' = d
    /\ StopDetection
    /\ isActive' = FALSE
    /\ UNCHANGED <<loggedPersonsRef, runs, requests, seen, people, now,
                   advances, overlay, edgeVars, routeVars>>

\* The user picks another camera in the Select: setSelectedDeviceId(d). The
\* Webcam element gets the new deviceId constraint; nothing else reads it.
SetSelectedDeviceId ==
  \E d \in Devices \ {selectedDeviceId} :
    /\ selectedDeviceId' = d
    /\ UNCHANGED <<hookVars, compVars, people, now, advances, overlay,
                   edgeVars, routeVars>>

\* Time passes.
Advance ==
  \E d \in ClockSteps :
    /\ advances < MaxAdvances
    /\ now' = now + d
    /\ advances' = advances + 1
    /\ UNCHANGED <<hookVars, compVars, people, viewVars>>

Init ==
  /\ isDetecting = FALSE
  /\ detectedFaces = <<>>
  /\ error = NULL
  /\ intervalRef = {}
  /\ isProcessingRef = FALSE
  /\ timers = {}
  /\ calls = {}
  /\ issued = 0
  /\ started = 0
  /\ stopped = FALSE
  /\ lastResult = "none"
  /\ publishedSeq = 0
  /\ people = [p \in Persons |->
                 [hasFacialData |-> (p = "p1"), active |-> TRUE]]
  /\ isActive = FALSE
  /\ loggedPersonsRef = << >>
  /\ runs = {}
  /\ requests = << >>
  /\ seen = {}
  /\ now = 1
  /\ advances = 0
  /\ selectedDeviceId = "cam1"
  /\ overlay = {}
  /\ served = {}
  /\ isAuthenticated = FALSE
  /\ role = NULL
  /\ pathname = "/"
  /\ rendered = "nothing"

\* The hook alone, under any client: every order of start, stop, timer ticks,
\* call completions and roster edits.
NextLoop ==
  \/ Start
  \/ Stop
  \/ Tick
  \/ DetectResolved
  \/ DetectFailed
  \/ EnrollFacial
  \/ ResetBiometrics
  \/ UpdatePerson

SpecLoop == Init /\ [][NextLoop]_vars

\* The webcam component through time: its toggle button, the loop it drives,
\* the log writes it awaits and the clock.
NextSession ==
  \/ HandleToggleDetection
  \/ Tick
  \/ FacesPublished
  \/ LogAccessDone
  \/ Advance

SpecCooldown == Init /\ [][NextSession]_vars

\* The webcam component while the gateway is down: every log write fails.
NextGatewayDown ==
  \/ HandleToggleDetection
  \/ Tick
  \/ FacesPublished
  \/ LogAccessFailed
  \/ Advance

SpecGatewayDown == Init /\ [][NextGatewayDown]_vars

\* The webcam component with a camera selector.
NextDevice ==
  \/ HandleToggleDetection
  \/ Tick
  \/ FacesPublished
  \/ LogAccessDone
  \/ SetSelectedDeviceId

SpecDevice == Init /\ [][NextDevice]_vars

\* The webcam component fed with the odd detection lists.
NextOddReplies ==
  \/ HandleToggleDetection
  \/ Tick
  \/ OddFacesPublished
  \/ LogAccessDone
  \/ Advance

SpecOddReplies == Init /\ [][NextOddReplies]_vars

\* The running loop end to end: the hook's calls answered by the edge
\* function, for every answer of the AI gateway.
NextService ==
  \/ Start
  \/ Tick
  \/ ServiceReplies

SpecService == Init /\ [][NextService]_vars

\* The edge function alone, over the requests and gateway answers.
NextEdge == Serves

SpecEdge == Init /\ [][NextEdge]_vars

\* The router under logins, logouts and visits of any location.
NextRouter ==
  \/ Login
  \/ Logout
  \/ Visit
  \/ RoutesRender

SpecRouter == Init /\ [][NextRouter]_vars

\* The overlay mapper over the boxes the service may return.
NextOverlay == RenderOverlay

SpecOverlay == Init /\ [][NextOverlay]_vars

\* A controller that is started and never stopped: the browser keeps firing
\* the interval timer, and every recognition call eventually settles.
NextRunning ==
  \/ Start
  \/ Tick
  \/ DetectResolved
  \/ DetectFailed

SpecRunning ==
  /\ Init
  /\ [][NextRunning]_vars
  /\ WF_vars(Tick)
  /\ WF_vars(DetectResolved \/ DetectFailed)

\* ------------------------------------------------------------------ claims
\* The times of the requests emitted for person p, in order of emission.
RECURSIVE TimesOf(_, _)
TimesOf(reqs, p) ==
  IF reqs = << >> THEN << >>
  ELSE IF Head(reqs).personId = p
       THEN <<Head(reqs).at>> \o TimesOf(Tail(reqs), p)
       ELSE TimesOf(Tail(reqs), p)

\* The requests of reqs emitted up to time t.
Upto(reqs, t) == SelectSeq(reqs, LAMBDA r : r.at <= t)

DetectedAt(p, t) == [personId |-> p, at |-> t] \in seen

FirstSeen(p) ==
  CHOOSE t \in {s.at : s \in {x \in seen : x.personId = p}} :
    \A s \in seen : s.personId = p => t <= s.at

\* C1: in a session that was started once and never stopped, a recognition
\* call is never issued while another one is outstanding: ticks that fire
\* while a call is in flight are dropped.
OneCallPerSession ==
  (started = 1 /\ ~stopped) => Cardinality(calls) <= 1

\* A second call was issued in such a session, after the first had settled.
OneCallPerSessionWitness ==
  started = 1 /\ ~stopped /\ issued = 2 /\ Cardinality(calls) = 1

\* C2: under any interleaving of start, stop, ticks and completions at most
\* one recognition call is outstanding.
AtMostOneOutstanding == Cardinality(calls) <= 1

\* C3: once the controller is stopped the published detection set stays
\* empty, whatever call resolves later.
LateResultDiscarded == ~isDetecting => detectedFaces = << >>

\* C4: start while Running is a no-op: a Running controller has exactly one
\* interval timer and a stopped one has none.
StartIsIdempotent ==
  /\ isDetecting => Cardinality(timers) = 1
  /\ ~isDetecting => timers = {}

\* C5: no two access-log requests for the same person are emitted less than
\* COOLDOWN_MS apart, overlapping reconcile runs included.
CooldownSpacing ==
  \A i, j \in DOMAIN requests :
    (i < j /\ requests[i].personId = requests[j].personId)
      => requests[j].at - requests[i].at >= COOLDOWN_MS

\* Two requests for one person were emitted while two runs were suspended at
\* their log write.
CooldownSpacingWitness ==
  /\ Cardinality(runs) >= 2
  /\ \E i, j \in DOMAIN requests :
       i < j /\ requests[i].personId = requests[j].personId

\* C6: with t0 the first detection of a person: detections at t0 and
\* t0 + 10000 emit exactly one event (at t0), and a further detection at
\* t0 + 31000 emits the second.
CooldownScenario ==
  \A p \in Persons :
    (\E s \in seen : s.personId = p) =>
      LET t0 == FirstSeen(p)
      IN /\ DetectedAt(p, t0 + 10000)
              => TimesOf(Upto(requests, t0 + 10000), p) = <<t0>>
         /\ (DetectedAt(p, t0 + 10000) /\ DetectedAt(p, t0 + 31000))
              => TimesOf(Upto(requests, t0 + 31000), p) = <<t0, t0 + 31000>>

\* A person was detected at t0, t0 + 10000 and t0 + 31000.
CooldownScenarioWitness ==
  \E p \in Persons :
    /\ \E s \in seen : s.personId = p
    /\ DetectedAt(p, FirstSeen(p) + 10000)
    /\ DetectedAt(p, FirstSeen(p) + 31000)

\* C7: no access-log request is ever emitted for a face with
\* isRegistered = false.
UnregisteredNeverLogged ==
  \A k \in DOMAIN requests : requests[k].isRegistered

\* The reconciler went through a set holding an unregistered face of a person
\* with no cooldown entry next to a registered face that it logged.
UnregisteredNeverLoggedWitness ==
  /\ detectedFaces = << Face("p2", FALSE), Face("p1", TRUE) >>
  /\ "p2" \notin DOMAIN loggedPersonsRef
  /\ TimesOf(requests, "p1") = <<now>>

RosterReadAtTick ==
  [][\A c \in calls' \ calls : c.registeredFaces = RegisteredFaces(people)]_vars

\* C10: a failed recognition call leaves the published detection set as it
\* was.
FailureKeepsPublishedSet ==
  [][(Cardinality(calls') < Cardinality(calls) /\ lastResult' = "failed")
       => detectedFaces' = detectedFaces]_vars

\* A call failed while a non-empty set was published.
FailureKeepsPublishedSetWitness ==
  lastResult = "failed" /\ error # NULL /\ detectedFaces # << >>

\* C11: while the controller stays Running and ticks keep firing, no failed or
\* null-frame tick ends the loop: the in-flight guard is always released
\* again, and after every call issued so far a later tick issues the next one
\* (up to the MaxCalls calls explored).
NoTickKillsLoop ==
  /\ isProcessingRef ~> ~isProcessingRef
  /\ \A n \in 0..(MaxCalls - 1) : (timers # {} /\ issued = n) ~> (issued > n)

\* A tick issued a new call after an earlier call of the same session failed.
NoTickKillsLoopWitness ==
  /\ started = 1 /\ lastResult = "failed" /\ error # NULL
  /\ isProcessingRef /\ Cardinality(calls) = 1 /\ issued >= 2

\* C12: every stop step ends with the timer handle null, the published set
\* empty, the guard false and isDetecting false; and a stop while Idle changes
\* nothing of the controller.
StopResetsAndIsNoOpWhenIdle ==
  [][StopDetection =>
       /\ intervalRef' = {} /\ detectedFaces' = << >>
       /\ ~isProcessingRef' /\ ~isDetecting'
       /\ ~isDetecting =>
            UNCHANGED <<isDetecting, detectedFaces, error, intervalRef,
                        isProcessingRef, timers, calls>>]_vars

\* C13: the published detection set is never overwritten by the result of a
\* call issued earlier than the call whose result it currently holds.
UpdatesInIssuanceOrder ==
  [][(publishedSeq' # 0 /\ publishedSeq # 0) => publishedSeq' >= publishedSeq]_vars

\* C14: a tick whose capture returns null changes nothing: no call is issued,
\* the guard is false when the tick ends, the published set and the error are
\* as before, and the timer stays.
NullFrameTickChangesNothing == ~ENABLED <<TickNullFrame>>_vars

\* A running timer can tick with a null frame while a detection set and an
\* error are on display and no call is in flight.
NullFrameTickChangesNothingWitness ==
  /\ ENABLED TickNullFrame
  /\ isDetecting /\ ~isProcessingRef /\ calls = {}
  /\ detectedFaces # << >> /\ error # NULL

\* The request requests[k] still awaits its log write.
Pending(k) ==
  \E run \in runs :
    /\ run.at = requests[k].at
    /\ run.faces[run.idx].matchedPersonId = requests[k].personId

\* C15: when the log write of an emitted event has failed, the person's
\* cooldown entry still holds the emission time, and no further request for
\* that person is emitted until more than COOLDOWN_MS have passed.
FailedWriteKeepsCooldown ==
  \A k \in DOMAIN requests :
    ~Pending(k) =>
      LET p == requests[k].personId
          t == requests[k].at
          later == {j \in DOMAIN requests : j > k /\ requests[j].personId = p}
      IN /\ p \in DOMAIN loggedPersonsRef
         /\ later = {} => loggedPersonsRef[p] = t
         /\ \A j \in later : requests[j].at - t > COOLDOWN_MS

\* The only write failed, and the person was detected again 10000 ms after
\* the emission without a new request.
FailedWriteKeepsCooldownWitness ==
  /\ runs = {} /\ Len(requests) = 1
  /\ DetectedAt(requests[1].personId, requests[1].at + 10000)
  /\ now = requests[1].at + 10000

InRange(box) ==
  \A f \in {"x", "y", "width", "height"} : box[f] >= 0 /\ box[f] <= 100

\* C16: for a bounding box with values in [0,100] the overlay is placed at
\* left = 100 - x - width, with top, width and height passed through; the box
\* {x:25, y:15, width:30, height:40} is drawn at {45, 15, 30, 40}.
MirroredOverlay ==
  \A o \in overlay :
    InRange(o.box) =>
      /\ o.style.left = Percent(100 - o.box.x - o.box.width)
      /\ o.style.top = Percent(o.box.y)
      /\ o.style.width = Percent(o.box.width)
      /\ o.style.height = Percent(o.box.height)
      /\ o.box = [x |-> 25, y |-> 15, width |-> 30, height |-> 40]
           => o.style = [left |-> Percent(45), top |-> Percent(15),
                         width |-> Percent(30), height |-> Percent(40)]

\* The box {x:25, y:15, width:30, height:40} was drawn.
MirroredOverlayWitness ==
  \E o \in overlay :
    /\ o.box = [x |-> 25, y |-> 15, width |-> 30, height |-> 40]
    /\ o.style.left.value = 45

\* C17: whatever box the service returns, each of left, top, width and height
\* of the overlay lies in [0,100].
OverlayWithinFrame ==
  \A o \in overlay :
    \A f \in {"left", "top", "width", "height"} :
      o.style[f].value >= 0 /\ o.style[f].value <= 100

\* C18: cooldown entries are kept per person. A step creates or changes the
\* entry of a person only by emitting a request for that person, no entry is
\* ever removed, and a registered detection goes unlogged only when its own
\* person was logged within the last COOLDOWN_MS.
CooldownPerPerson ==
  /\ [][\A q \in Persons :
          /\ q \in DOMAIN loggedPersonsRef => q \in DOMAIN loggedPersonsRef'
          /\ (q \in DOMAIN loggedPersonsRef' /\
                (q \in DOMAIN loggedPersonsRef
                   => loggedPersonsRef'[q] # loggedPersonsRef[q]))
               => \E k \in (Len(requests) + 1)..Len(requests') :
                    /\ requests'[k].personId = q
                    /\ requests'[k].at = loggedPersonsRef'[q]]_vars
  /\ [](\A s \in seen :
          \E k \in DOMAIN requests :
            /\ requests[k].personId = s.personId
            /\ s.at - requests[k].at >= 0
            /\ s.at - requests[k].at <= COOLDOWN_MS)

\* Two registered persons were detected in one set: the first was held back
\* by its own entry, the second was logged.
CooldownPerPersonWitness ==
  /\ detectedFaces = << Face("p1", TRUE), Face("p2", TRUE) >>
  /\ DetectedAt("p1", now) /\ DetectedAt("p2", now)
  /\ TimesOf(requests, "p1") = <<now - 10000>>
  /\ TimesOf(requests, "p2") = <<now>>

\* C19: reconciliations are not interleaved: when the reconciliation of a
\* newly published set starts to read the cooldown map, no earlier
\* reconciliation is suspended with map reads still to come.
ReconciliationsNotInterleaved ==
  [][(/\ publishedSeq' # 0 /\ publishedSeq' # publishedSeq
      /\ \E i \in DOMAIN detectedFaces' : Loggable(detectedFaces'[i]))
       => \A run \in runs :
            \A i \in DOMAIN run.faces :
              i > run.idx => ~Loggable(run.faces[i])]_vars

MalformedReplyLeavesSetStale ==
  [][(/\ Cardinality(calls') < Cardinality(calls)
      /\ \E r \in served' : r.upstream.status = 200 /\ r.upstream.content = "text")
       => /\ detectedFaces' = detectedFaces
          /\ timers' = timers
          /\ ~isProcessingRef']_vars

Reached(r) == r.request.capturedImage # NULL /\ r.apiKey

Is2xx(st) == st >= 200 /\ st <= 299

\* C28: the edge function answers an upstream 429 with 429 and an upstream 402
\* with 402, each with faces = [] and totalFaces = 0; any other upstream
\* non-2xx, a missing capturedImage or a missing API key with 500 and
\* faces = []; and it answers 2xx only when the upstream call succeeded.
EdgeStatusMapping ==
  \A r \in served :
    /\ (Reached(r) /\ r.upstream.status \in {402, 429})
         => /\ r.response.status = r.upstream.status
            /\ r.response.body.faces = << >>
            /\ r.response.body.totalFaces = 0
    /\ (~Reached(r) \/ (~Is2xx(r.upstream.status)
                          /\ r.upstream.status \notin {402, 429}))
         => /\ r.response.status = 500
            /\ r.response.body.faces = << >>
    /\ Is2xx(r.response.status)
         => Reached(r) /\ Is2xx(r.upstream.status)

\* The gateway answered 429 to a well-formed request and the edge function
\* passed the status on.
EdgeStatusMappingWitness ==
  \E r \in served :
    /\ Reached(r) /\ r.upstream.status = 429
    /\ r.response.status = 429 /\ r.response.body.error = "Rate limit exceeded"

\* C22: the comparison is strict. A registered detection exactly COOLDOWN_MS
\* after the person's last logged time emits nothing and leaves the entry as
\* it is, and every request after the first for a person comes more than
\* COOLDOWN_MS after the one before.
StrictCooldown ==
  /\ \A s \in seen :
       \A k \in DOMAIN requests :
         (requests[k].personId = s.personId
            /\ s.at - requests[k].at = COOLDOWN_MS)
           => /\ \A j \in DOMAIN requests :
                   requests[j].personId = s.personId => requests[j].at # s.at
              /\ loggedPersonsRef[s.personId] # s.at
  /\ \A i, j \in DOMAIN requests :
       (i < j /\ requests[i].personId = requests[j].personId)
         => requests[j].at - requests[i].at > COOLDOWN_MS

\* A person was detected exactly COOLDOWN_MS after being logged.
StrictCooldownWitness ==
  \E s \in seen :
    /\ s.personId \in DOMAIN loggedPersonsRef
    /\ s.at - loggedPersonsRef[s.personId] = COOLDOWN_MS
    /\ s.at = now

\* C23: from stop until the next start no timer is left to tick and no
\* recognition call is issued, whatever starts and stops came before.
QuietAfterStop ==
  [][(~isDetecting /\ stopped /\ ~isDetecting')
       => timers = {} /\ issued' = issued]_vars

\* C24: a cooldown entry is the time of an emitted event, never that of a
\* suppressed detection, and a person detected more than COOLDOWN_MS after
\* the entry is logged again: no detection later than the entry lies outside
\* the window.
EntryIsLastEmission ==
  \A p \in DOMAIN loggedPersonsRef :
    /\ \E k \in DOMAIN requests :
         requests[k].personId = p /\ requests[k].at = loggedPersonsRef[p]
    /\ \A s \in seen :
         (s.personId = p /\ s.at > loggedPersonsRef[p])
           => s.at - loggedPersonsRef[p] <= COOLDOWN_MS

\* A person in view was logged, then detected 10000 ms later without an
\* event, and logged again 31000 ms after the first event.
EntryIsLastEmissionWitness ==
  \E p \in DOMAIN loggedPersonsRef :
    LET times == TimesOf(requests, p)
    IN /\ Len(times) = 2
       /\ times[2] - times[1] = 31000
       /\ DetectedAt(p, times[1] + 10000)
       /\ loggedPersonsRef[p] = times[2]

\* C25: every request with granted = true is for a person who is active and
\* has facial data in the people list (which no step of this specification
\* changes, so the list at emission time is the current one).
GrantedOnlyForEnrolled ==
  \A k \in DOMAIN requests :
    requests[k].granted
      => /\ people[requests[k].personId].active
         /\ people[requests[k].personId].hasFacialData

\* C26: one published set yields at most one request per person, also when
\* the person is in two of its registered faces: the reconciliation that
\* logged a person does not log that person again when it goes on with the
\* rest of the set.
OneRequestPerSetAndPerson ==
  [][\A run \in runs :
       LogAccessReturns(run, FALSE)
         => \A k \in (Len(requests) + 1)..Len(requests') :
              requests'[k].personId # run.faces[run.idx].matchedPersonId]_vars

\* C27: a registered face whose matchedPersonId is null or nobody's id emits
\* no request and creates no cooldown entry.
NoEventForUnknownPerson ==
  /\ \A k \in DOMAIN requests : requests[k].personId \in Persons
  /\ DOMAIN loggedPersonsRef \subseteq Persons
  /\ \A run \in runs : run.faces[run.idx].matchedPersonId \in Persons

\* The reconciler went past a registered face with a null id and one with an
\* unknown id, and logged the known person behind them.
NoEventForUnknownPersonWitness ==
  /\ detectedFaces = << Face(NULL, TRUE), Face("p9", TRUE), Face("p1", TRUE) >>
  /\ Len(requests) = 1 /\ requests[1].personId = "p1" /\ requests[1].at = now
  /\ DOMAIN loggedPersonsRef = {"p1"}

\* C29: once a cycle has failed the error stays non-null through later
\* successful cycles and through stop; only a call to start clears it.
ErrorSticksUntilStart ==
  [][error # NULL /\ error' = NULL => started' = started + 1]_vars

\* A cycle failed, a later one succeeded, and detection was stopped: the
\* error is still there.
ErrorSticksUntilStartWitness ==
  /\ error # NULL
  /\ lastResult = "resolved"
  /\ stopped /\ ~isDetecting
  /\ calls = {}

\* C30: for every role of an authenticated user, null included, the route
\* getDefaultRouteForRole returns is one canAccessRoute permits: where
\* ProtectedRoute redirected a denied user to, the page is rendered and not
\* redirected again.
DefaultRouteIsPermitted ==
  rendered = "default-redirect" => canAccessRoute(role, pathname)

====
